---------------------------- MODULE Spec2Model ----------------------------
(***************************************************************************)
(* A model of the resume screening engine (src/matching_engine.py):        *)
(* the local similarity scorer, the Gemini judgment client with its        *)
(* parsing tiers and fallbacks, and the score combiner; and of what the    *)
(* application does around it: the file processor (src/file_processor.py), *)
(* the analysis run and the results view (src/app.py, src/utils.py) and    *)
(* the candidates table (src/database.py).                                 *)
(*                                                                         *)
(* Numbers.  Python floats are modelled by exact rationals <<n, d>> with   *)
(* d > 0, kept in lowest terms; round(x, 1) is Python's round-half-even on *)
(* the exact value.  Binary representation error of floats is not          *)
(* modelled.                                                               *)
(*                                                                         *)
(* Texts.  A document is a sequence of words (the text is the words joined *)
(* by single blanks, punctuation dropped).  Substring tests, the keyword   *)
(* regex and the fuzzy token sets are computed word by word.               *)
(***************************************************************************)
EXTENDS Integers, Sequences, FiniteSets, TLC

VARIABLES
    pc,             \* where the current call stands
    request,        \* the arguments of the call: resume_text, jd_text, skills
    local_results,  \* the record compute_local_similarity returned
    response,       \* what generate_content did: it raised, or the text it returned
    gemini_results, \* the record gemini_resume_match returned
    final_result,   \* what comprehensive_match returned, or that it raised
    rng,            \* module random: the generator's last output, on 0..RngGrid
    prev_local,     \* the record the previous compute_local_similarity call returned
    args,           \* the arguments of a pure function under check
    ret,            \* its result
    llm_calls,      \* the generate_content calls of the current request
    configured_key, \* the API key genai.configure stored last (module state)
    engines,        \* the MatchingEngine instances built so far
    temp_files,     \* the temporary files on disk
    candidates,     \* the rows of the candidates table
    sqlite_sequence \* the largest id the candidates table ever used

\* the state outside the matching engine's request
app_vars == <<configured_key, engines, temp_files, candidates, sqlite_sequence>>

vars == <<pc, request, local_results, response, gemini_results, final_result,
          rng, prev_local, args, ret, llm_calls, app_vars>>

(***************************************************************************)
(* Bounds of the model.                                                    *)
(***************************************************************************)
\* the most words of an enumerated document
MaxTokens == 2
\* the most entries of an enumerated skills list
MaxSkills == 1
\* random() yields k / RngGrid for k in 0..RngGrid
RngGrid == 8
\* raw combined scores are enumerated as k / CurveGrid
CurveGrid == 40
\* sub-metric values are enumerated as k / MetricGrid
MetricGrid == 4
\* the candidates table: the ids AUTOINCREMENT hands out in a run
MaxRowId == 3

None == [t |-> "none"]
\* a document text, as its words
Text(words) == [t |-> "str", words |-> words]
\* a Python list
List(items) == [t |-> "list", items |-> items]

(***************************************************************************)
(* Exact rationals.                                                        *)
(***************************************************************************)
Abs(n) == IF n < 0 THEN -n ELSE n

RECURSIVE GCD(_, _)
GCD(a, b) == IF b = 0 THEN a ELSE GCD(b, a % b)

Rat(n, d) == LET g == GCD(Abs(n), d) IN <<n \div g, d \div g>>

RatAdd(x, y) == Rat(x[1] * y[2] + y[1] * x[2], x[2] * y[2])
RatSub(x, y) == Rat(x[1] * y[2] - y[1] * x[2], x[2] * y[2])
RatMul(x, y) == Rat(x[1] * y[1], x[2] * y[2])
RatLess(x, y) == x[1] * y[2] < y[1] * x[2]
RatLeq(x, y) == x[1] * y[2] <= y[1] * x[2]
RatMin(x, y) == IF RatLess(y, x) THEN y ELSE x
RatMax(x, y) == IF RatLess(x, y) THEN y ELSE x

\* Python's round(x): to the nearest integer, ties to the even one
RoundHalfEven(x) ==
    LET q == x[1] \div x[2]
        r == x[1] % x[2]
    IN  IF 2 * r < x[2] THEN q
        ELSE IF 2 * r > x[2] THEN q + 1
        ELSE IF q % 2 = 0 THEN q ELSE q + 1

\* Python's round(x, 1)
Round1(x) == Rat(RoundHalfEven(RatMul(x, <<10, 1>>)), 10)

(***************************************************************************)
(* Words and texts.                                                        *)
(***************************************************************************)
\* str.lower(), word by word
Lower(w) ==
    CASE w = "Python" -> "python"
      [] w = "Senior" -> "senior"
      [] OTHER -> w

LowerText(text) == [i \in DOMAIN text |-> Lower(text[i])]

\* the words of the vocabulary some searched term is a proper substring of
ProperSubstrings == {<<"javascript", "java">>, <<"django", "go">>}

\* term in text (Python's substring test), for a term without blanks
Contains(text, term) ==
    \E i \in DOMAIN text :
        text[i] = term \/ <<text[i], term>> \in ProperSubstrings

\* len(text)
RECURSIVE TextLen(_)
TextLen(text) ==
    IF text = <<>> THEN 0
    ELSE Len(Head(text))
         + (IF Len(text) = 1 THEN 0 ELSE 1 + TextLen(Tail(text)))

\* text[:cap]; a word the cap cuts in two is dropped
RECURSIVE Slice(_, _)
Slice(text, cap) ==
    IF TextLen(text) <= cap THEN text
    ELSE Slice(SubSeq(text, 1, Len(text) - 1), cap)

\* the words that hold a character other than a letter
NonAlphaWords == {"8"}

(***************************************************************************)
(* MatchingEngine.__init__: the skill taxonomy.                            *)
(***************************************************************************)
skill_categories ==
    [programming |-> {"python", "java", "javascript", "c++", "c#", "go",
                      "rust", "swift", "kotlin"},
     web_frameworks |-> {"react", "angular", "vue", "django", "flask",
                         "spring", "express", "node.js"},
     cloud_devops |-> {"aws", "azure", "gcp", "docker", "kubernetes",
                       "terraform", "jenkins", "git"},
     databases |-> {"sql", "mysql", "postgresql", "mongodb", "redis",
                    "oracle", "firebase"},
     data_ai |-> {"machine learning", "deep learning", "ai", "tensorflow",
                  "pytorch", "pandas", "numpy"},
     mobile |-> {"react native", "flutter", "android", "ios",
                 "mobile development"},
     tools |-> {"git", "jira", "docker", "kubernetes", "jenkins", "agile",
                "scrum"}]

(***************************************************************************)
(* The local similarity scorer.                                            *)
(***************************************************************************)
stop_words ==
    {"the", "a", "an", "and", "or", "but", "in", "on", "at", "to", "for",
     "of", "with", "by", "as", "is", "are", "was", "were", "be", "been"}

\* re.findall(r'\b[a-z]{3,15}\b', text.lower()) less the stop words
_extract_keywords(text) ==
    LET words == {Lower(text[i]) : i \in DOMAIN text}
    IN  {w \in words : /\ w \notin NonAlphaWords
                       /\ Len(w) >= 3
                       /\ Len(w) <= 15
                       /\ w \notin stop_words}

\* skills is None or a list: "not skills" holds of None and of the empty list
Falsy(skills) == IF skills.t = "none" THEN TRUE ELSE skills.items = <<>>

_calculate_category_score(jd_text, resume_text, skills) ==
    IF Falsy(skills) THEN <<0, 1>>
    ELSE
    LET cats == DOMAIN skill_categories
        listed == {skills.items[i] : i \in DOMAIN skills.items}
        jd_categories_found ==
            {c \in cats : \E s \in skill_categories[c] : Contains(jd_text, s)}
        resume_categories_found ==
            {c \in cats : \E s \in skill_categories[c] : s \in listed}
        matching_categories == jd_categories_found \cap resume_categories_found
    IN  IF jd_categories_found = {} THEN <<1, 2>>
        ELSE Rat(Cardinality(matching_categories),
                 Cardinality(jd_categories_found))

senior_indicators ==
    {"senior", "lead", "principal", "architect", "manager", "director",
     "10+", "10 years", "15 years", "20 years", "extensive", "expert"}
mid_indicators ==
    {"mid-level", "mid level", "3+ years", "5+ years", "5 years",
     "experienced", "professional", "intermediate"}
junior_indicators ==
    {"junior", "entry", "graduate", "0-2", "1-2 years", "fresher",
     "recent graduate", "beginner", "trainee"}

level_scores(jd_level, resume_level) ==
    CASE jd_level = "junior" /\ resume_level = "junior" -> <<9, 10>>
      [] jd_level = "junior" /\ resume_level = "mid" -> <<7, 10>>
      [] jd_level = "junior" /\ resume_level = "senior" -> <<3, 10>>
      [] jd_level = "mid" /\ resume_level = "junior" -> <<4, 10>>
      [] jd_level = "mid" /\ resume_level = "mid" -> <<9, 10>>
      [] jd_level = "mid" /\ resume_level = "senior" -> <<6, 10>>
      [] jd_level = "senior" /\ resume_level = "junior" -> <<2, 10>>
      [] jd_level = "senior" /\ resume_level = "mid" -> <<5, 10>>
      [] jd_level = "senior" /\ resume_level = "senior" -> <<95, 100>>
      [] jd_level = "any" /\ resume_level = "junior" -> <<8, 10>>
      [] jd_level = "any" /\ resume_level = "mid" -> <<9, 10>>
      [] jd_level = "any" /\ resume_level = "senior" -> <<95, 100>>
      [] OTHER -> <<5, 10>>

_calculate_experience_score(resume_text, jd_text) ==
    LET jd_level ==
            IF \E s \in senior_indicators : Contains(jd_text, s) THEN "senior"
            ELSE IF \E s \in mid_indicators : Contains(jd_text, s) THEN "mid"
            ELSE IF \E s \in junior_indicators : Contains(jd_text, s)
                 THEN "junior"
            ELSE "any"
        resume_level ==
            IF \E s \in senior_indicators : Contains(resume_text, s)
                 THEN "senior"
            ELSE IF \E s \in mid_indicators : Contains(resume_text, s)
                 THEN "mid"
            ELSE "junior"
        s == level_scores(jd_level, resume_level)
    IN  Rat(s[1], s[2])

\* len of the text made of the words of the set S (sorted) joined by blanks
RECURSIVE JoinLen(_)
JoinLen(S) ==
    IF S = {} THEN 0
    ELSE LET w == CHOOSE x \in S : TRUE
         IN  Len(w) + (IF S = {w} THEN 0 ELSE 1 + JoinLen(S \ {w}))

\* fuzz.ratio of two texts of lengths len1 and len2 that share `matches`
\* characters: int(round(100 * 2 * M / T))
fuzz_ratio(matches, len1, len2) ==
    IF len1 = 0 \/ len2 = 0 THEN 0
    ELSE RoundHalfEven(Rat(200 * matches, len1 + len2))

\* fuzz.token_set_ratio (fuzzywuzzy, over difflib): the token sets, their
\* intersection and differences, and the best of the three pairwise ratios.
\* The characters two texts share are those of their common tokens and of the
\* blank after them; characters shared by different tokens are not counted.
token_set_ratio(s1, s2) ==
    LET tokens1 == {Lower(s1[i]) : i \in DOMAIN s1}
        tokens2 == {Lower(s2[i]) : i \in DOMAIN s2}
        sect == tokens1 \cap tokens2
        diff1to2 == tokens1 \ tokens2
        diff2to1 == tokens2 \ tokens1
        lsect == JoinLen(sect)
        sep(d) == IF sect # {} /\ d # {} THEN 1 ELSE 0
        l1 == lsect + sep(diff1to2) + JoinLen(diff1to2)
        l2 == lsect + sep(diff2to1) + JoinLen(diff2to1)
        r1 == IF diff1to2 = {} THEN 100 ELSE fuzz_ratio(lsect, lsect, l1)
        r2 == IF diff2to1 = {} THEN 100 ELSE fuzz_ratio(lsect, lsect, l2)
        both == IF sep(diff1to2) = 1 /\ sep(diff2to1) = 1 THEN 1 ELSE 0
        r3 == IF diff1to2 = {} /\ diff2to1 = {} THEN 100
              ELSE fuzz_ratio(lsect + both, l1, l2)
        max2(a, b) == IF a < b THEN b ELSE a
    IN  IF tokens1 = {} \/ tokens2 = {} THEN 0
        ELSE max2(r1, max2(r2, r3))

\* the curve with the last slope mistyped (75 for 7.5)
_apply_scaling_curve_steep(score) ==
    IF RatLess(score, <<3, 10>>)
    THEN RatMul(score, <<3, 1>>)
    ELSE IF RatLess(score, <<7, 10>>)
    THEN RatAdd(<<9, 10>>, RatMul(RatSub(score, <<3, 10>>), <<25, 10>>))
    ELSE RatAdd(<<25, 10>>, RatMul(RatSub(score, <<7, 10>>), <<75, 1>>))

\* the curve with the middle segment starting too high (1.9 for 0.9)
_apply_scaling_curve_overlap(score) ==
    IF RatLess(score, <<3, 10>>)
    THEN RatMul(score, <<3, 1>>)
    ELSE IF RatLess(score, <<7, 10>>)
    THEN RatAdd(<<19, 10>>, RatMul(RatSub(score, <<3, 10>>), <<25, 10>>))
    ELSE RatAdd(<<25, 10>>, RatMul(RatSub(score, <<7, 10>>), <<75, 10>>))

\* the curve with its last segment rescaled to the 0-10 range
_apply_scaling_curve_rescaled(score) ==
    IF RatLess(score, <<3, 10>>)
    THEN RatMul(score, <<3, 1>>)
    ELSE IF RatLess(score, <<7, 10>>)
    THEN RatAdd(<<9, 10>>, RatMul(RatSub(score, <<3, 10>>), <<25, 10>>))
    ELSE RatMul(<<2, 1>>,
                RatAdd(<<25, 10>>, RatMul(RatSub(score, <<7, 10>>), <<75, 10>>)))

_apply_scaling_curve(score) ==
    IF RatLess(score, <<3, 10>>)
    THEN RatMul(score, <<3, 1>>)
    ELSE IF RatLess(score, <<7, 10>>)
    THEN RatAdd(<<9, 10>>, RatMul(RatSub(score, <<3, 10>>), <<25, 10>>))
    ELSE RatAdd(<<25, 10>>, RatMul(RatSub(score, <<7, 10>>), <<75, 10>>))

\* lines 56-61: the weighted sum of the four sub-metrics
combined_score(keyword_score, category_score, experience_score, fuzzy_score) ==
    RatAdd(RatAdd(RatMul(keyword_score, <<4, 10>>),
                  RatMul(category_score, <<3, 10>>)),
           RatAdd(RatMul(experience_score, <<15, 100>>),
                  RatMul(fuzzy_score, <<15, 100>>)))

\* the record of the except branch with a zero default score
local_error_record_zero ==
    [keyword_match |-> <<0, 1>>, category_match |-> <<0, 1>>,
     experience_match |-> <<0, 1>>, text_similarity |-> <<0, 1>>,
     final_local_score |-> <<0, 1>>]

\* the record of the except branch
local_error_record ==
    [keyword_match |-> <<0, 1>>, category_match |-> <<0, 1>>,
     experience_match |-> <<0, 1>>, text_similarity |-> <<0, 1>>,
     final_local_score |-> <<3, 1>>]

\* a text is None or a str; slicing None raises TypeError
IsStr(text) == text.t = "str"

\* lines 34-72: the body of the try
local_similarity_body(resume_text, jd_text, skills) ==
    LET resume_limited == LowerText(Slice(resume_text.words, 20000))
        jd_limited == LowerText(Slice(jd_text.words, 20000))
        jd_keywords == _extract_keywords(jd_limited)
        resume_keywords == _extract_keywords(resume_limited)
        exact_matches == jd_keywords \cap resume_keywords
        n_jd == Cardinality(jd_keywords)
        keyword_score ==
            Rat(Cardinality(exact_matches), IF n_jd > 1 THEN n_jd ELSE 1)
        category_score ==
            _calculate_category_score(jd_limited, resume_limited, skills)
        experience_score ==
            _calculate_experience_score(resume_limited, jd_limited)
        fuzzy_score == Rat(token_set_ratio(resume_limited, jd_limited), 100)
        final_score ==
            _apply_scaling_curve(combined_score(keyword_score, category_score,
                                                experience_score, fuzzy_score))
        pct(x) == Round1(RatMul(x, <<100, 1>>))
    IN  [keyword_match |-> pct(keyword_score),
         category_match |-> pct(category_score),
         experience_match |-> pct(experience_score),
         text_similarity |-> pct(fuzzy_score),
         final_local_score |-> Round1(final_score)]

\* the scorer with the score variation of the judgment path added to it
compute_local_similarity_jittered(resume_text, jd_text, skills) ==
    IF ~IsStr(resume_text) \/ ~IsStr(jd_text) THEN local_error_record
    ELSE LET r == local_similarity_body(resume_text, jd_text, skills)
         IN  [r EXCEPT !.final_local_score =
                 Round1(RatAdd(@, Rat(2 * rng - RngGrid, 10 * RngGrid)))]

compute_local_similarity(resume_text, jd_text, skills) ==
    IF ~IsStr(resume_text) \/ ~IsStr(jd_text) THEN local_error_record
    ELSE local_similarity_body(resume_text, jd_text, skills)

(***************************************************************************)
(* JSON values and the text of an LLM response.                            *)
(* A value is a number [t |-> "num", num |-> rational], a string           *)
(* [t |-> "str", str |-> s], a formatted string [t |-> "fstr", parts],      *)
(* null [t |-> "null"] or a list of strings [t |-> "list", items |-> seq].  *)
(* A response text is a sequence of tokens: the characters "{", "}" and     *)
(* ",", a control character "ctrl", other text "prose", and a member        *)
(* "key": value of a JSON object, [c |-> "pair", key, val].                 *)
(***************************************************************************)
Num(x) == [t |-> "num", num |-> x]
Str(x) == [t |-> "str", str |-> x]
FStr(parts) == [t |-> "fstr", parts |-> parts]
Null == [t |-> "null"]

LB == [c |-> "{"]
RB == [c |-> "}"]
Comma == [c |-> ","]
Ctrl == [c |-> "ctrl"]
Prose == [c |-> "prose"]
Pair(key, val) == [c |-> "pair", key |-> key, val |-> val]

\* an exception leaving a function
Raise(exc) == [t |-> "raise", exc |-> exc]
IsRaise(x) == x.t = "raise"

\* a dict as a record; what a function returns is a dict, None or a Raise
Dict(d) == [t |-> "dict", d |-> d]

\* str.find('{') and str.rfind('}') + 1, on 0-based positions
FindLB(text) ==
    IF \E i \in DOMAIN text : text[i] = LB
    THEN (CHOOSE i \in DOMAIN text :
            text[i] = LB /\ \A j \in 1..(i - 1) : text[j] # LB) - 1
    ELSE -1
RFindRBPlus1(text) ==
    IF \E i \in DOMAIN text : text[i] = RB
    THEN CHOOSE i \in DOMAIN text :
            text[i] = RB /\ \A j \in (i + 1)..Len(text) : text[j] # RB
    ELSE 0

\* re.sub(r',\s*([}\]])', r'\1', s): a comma right before a closing brace goes
RECURSIVE StripFrom(_, _)
StripFrom(seq, i) ==
    IF i > Len(seq) THEN <<>>
    ELSE (IF seq[i] = Comma /\ i < Len(seq) /\ seq[i + 1] = RB
          THEN <<>> ELSE <<seq[i]>>)
         \o StripFrom(seq, i + 1)
StripTrailingCommas(seq) == StripFrom(seq, 1)

\* re.sub(r'[\x00-\x1f\x7f-\x9f]', '', s)
StripControl(seq) == SelectSeq(seq, LAMBDA tok : tok # Ctrl)

\* whether json.loads accepts the text: "{" member ("," member)* "}" or "{}"
IsJSONObject(seq) ==
    /\ Len(seq) >= 2
    /\ seq[1] = LB
    /\ seq[Len(seq)] = RB
    /\ \/ Len(seq) = 2
       \/ /\ Len(seq) % 2 = 1
          /\ \A i \in 2..(Len(seq) - 1) :
                IF i % 2 = 0 THEN seq[i].c = "pair" ELSE seq[i] = Comma

\* the dict json.loads builds: of two members with one key the later one wins
LoadsObject(seq) ==
    LET idx == {i \in DOMAIN seq : seq[i].c = "pair"}
        keys == {seq[i].key : i \in idx}
        last(k) == CHOOSE i \in idx :
                      seq[i].key = k /\ \A j \in idx : seq[j].key = k => j <= i
    IN  [k \in keys |-> seq[last(k)].val]

numeric_fields ==
    {"fit_score", "technical_skills_score", "experience_relevance",
     "seniority_match"}

\* whether the regex of _parse_manual_json for `key` matches the member: a
\* number that starts with a digit, a quoted string, a bracketed list
ManualMatches(tok, key) ==
    /\ tok.c = "pair"
    /\ tok.key = key
    /\ IF key \in numeric_fields
       THEN tok.val.t = "num" /\ tok.val.num[1] >= 0
       ELSE IF key \in {"recommendation", "justification"}
       THEN tok.val.t = "str"
       ELSE tok.val.t = "list"

_parse_manual_json(text) ==
    LET searched == numeric_fields
                      \cup {"recommendation", "justification",
                            "key_strengths", "critical_gaps"}
        found == {k \in searched :
                    \E i \in DOMAIN text : ManualMatches(text[i], k)}
        first(k) == CHOOSE i \in DOMAIN text :
                       /\ ManualMatches(text[i], k)
                       /\ \A j \in 1..(i - 1) : ~ManualMatches(text[j], k)
        value(k) ==
            LET v == text[first(k)].val
            IN  IF k = "key_strengths" /\ v.items = <<>>
                THEN [t |-> "list", items |-> <<"Strong technical foundation">>]
                ELSE IF k = "critical_gaps" /\ v.items = <<>>
                THEN [t |-> "list",
                      items |-> <<"Some technology gaps identified">>]
                ELSE v
    IN  IF found = {} THEN None ELSE Dict([k \in found |-> value(k)])

\* the extraction trying the manual patterns before the JSON parse
_extract_and_parse_json_manual_first(response_text) ==
    LET start == FindLB(response_text)
        end == RFindRBPlus1(response_text)
        json_str == StripControl(StripTrailingCommas(
                        SubSeq(response_text, start + 1, end)))
        manual == _parse_manual_json(response_text)
    IN  IF start >= 0 /\ end > start
        THEN IF manual # None THEN manual
             ELSE IF IsJSONObject(json_str) THEN Dict(LoadsObject(json_str))
             ELSE None
        ELSE None

\* the extraction falling back on the manual patterns also when the text
\* has no braces
_extract_and_parse_json_always_manual(response_text) ==
    LET start == FindLB(response_text)
        end == RFindRBPlus1(response_text)
        json_str == StripControl(StripTrailingCommas(
                        SubSeq(response_text, start + 1, end)))
    IN  IF start >= 0 /\ end > start /\ IsJSONObject(json_str)
        THEN Dict(LoadsObject(json_str))
        ELSE _parse_manual_json(response_text)

_extract_and_parse_json(response_text) ==
    LET start == FindLB(response_text)
        end == RFindRBPlus1(response_text)
        json_str == StripControl(StripTrailingCommas(
                        SubSeq(response_text, start + 1, end)))
    IN  IF start >= 0 /\ end > start
        THEN IF IsJSONObject(json_str)
             THEN Dict(LoadsObject(json_str))
             ELSE _parse_manual_json(response_text)
        ELSE None

(***************************************************************************)
(* The judgment client.                                                    *)
(***************************************************************************)
\* random.uniform(lo, hi) when random() yields u / RngGrid
uniform(lo, hi, u) == RatAdd(lo, RatMul(RatSub(hi, lo), Rat(u, RngGrid)))

required_fields ==
    [fit_score |-> Num(<<5, 1>>),
     technical_skills_score |-> Num(<<5, 1>>),
     experience_relevance |-> Num(<<5, 1>>),
     seniority_match |-> Num(<<5, 1>>),
     key_strengths |-> List(<<"Technical skills analysis completed">>),
     critical_gaps |-> List(<<"Some gaps may exist">>),
     justification |-> Str("AI analysis completed successfully"),
     recommendation |-> Str("Consider"),
     interview_focus_areas |->
         List(<<"Technical skills verification", "Experience depth">>),
     overall_assessment |-> Str("Candidate analysis completed")]

\* Python's "not v" of a JSON value
FalsyValue(v) ==
    \/ v.t = "null"
    \/ v.t = "list" /\ v.items = <<>>
    \/ v.t = "str" /\ v.str = ""
    \/ v.t = "num" /\ v.num[1] = 0

\* line 347: max(1.0, min(10.0, round(fit_score + variation, 1)))
clamp_fit_score(score, variation) ==
    RatMax(<<1, 1>>, RatMin(<<10, 1>>, Round1(RatAdd(score, variation))))

\* result is the dict; adding the variation to a fit_score that is no number
\* raises TypeError
_validate_result_structure(result, u) ==
    LET list_fields == {"key_strengths", "critical_gaps",
                        "interview_focus_areas"}
        filled ==
            [f \in DOMAIN result \cup DOMAIN required_fields |->
                IF f \notin DOMAIN result THEN required_fields[f]
                ELSE IF f \in list_fields /\ FalsyValue(result[f])
                THEN required_fields[f]
                ELSE result[f]]
        variation == uniform(<<-4, 10>>, <<4, 10>>, u)
    IN  IF filled.fit_score.t # "num" THEN Raise("TypeError")
        ELSE Dict([filled EXCEPT !.fit_score =
                      Num(clamp_fit_score(filled.fit_score.num, variation))])

tech_keywords ==
    {"python", "java", "javascript", "react", "aws", "azure", "sql",
     "docker", "kubernetes"}

\* the texts of `order` that satisfy the test, in that order
RECURSIVE Collect(_, _, _, _)
Collect(order, resume_lower, wanted, prefix) ==
    IF order = <<>> THEN <<>>
    ELSE (IF Contains(resume_lower, Head(order)) = wanted
          THEN <<prefix \o Head(order)>> ELSE <<>>)
         \o Collect(Tail(order), resume_lower, wanted, prefix)

FirstN(seq, n) == SubSeq(seq, 1, IF Len(seq) < n THEN Len(seq) ELSE n)

\* len(skills) if skills else 0
skill_count_of(skills) == IF Falsy(skills) THEN 0 ELSE Len(skills.items)

\* line 380: min(8.5, 4 + skill_count * 0.3 + len(strengths) * 0.2)
fallback_base_score(skill_count, n_strengths) ==
    RatMin(<<85, 10>>,
           RatAdd(<<4, 1>>, RatAdd(Rat(3 * skill_count, 10),
                                   Rat(2 * n_strengths, 10))))

\* lines 362-376: the strengths the loop finds, or the two generic ones
fallback_strengths(resume_lower, order) ==
    LET found_strengths ==
            Collect(order, resume_lower, TRUE, "Experience with ")
    IN  IF found_strengths = <<>>
        THEN <<"Solid technical background",
               "Relevant educational/project experience">>
        ELSE found_strengths

\* order: the technology keywords found in the job text, in the order the
\* iteration over the set tech_keywords meets them
_create_fallback_result(resume_text, jd_text, skills, order, u) ==
    LET skill_count == skill_count_of(skills)
        resume_lower == LowerText(resume_text.words)
        found_gaps == Collect(order, resume_lower, FALSE, "Missing ")
        strengths == fallback_strengths(resume_lower, order)
        gaps ==
            IF found_gaps = <<>>
            THEN <<"Some technology gaps may exist",
                   "Experience depth needs verification">>
            ELSE [i \in DOMAIN found_gaps |-> found_gaps[i] \o " experience"]
        base_score == fallback_base_score(skill_count, Len(strengths))
        variation == uniform(<<-6, 10>>, <<6, 10>>, u)
        final_score ==
            RatMax(<<2, 1>>, RatMin(<<9, 1>>, RatAdd(base_score, variation)))
    IN  Dict(
        [fit_score |-> Num(Round1(final_score)),
         technical_skills_score |->
             Num(RatMin(<<9, 1>>, RatAdd(<<5, 1>>, Rat(2 * skill_count, 10)))),
         experience_relevance |->
             Num(Round1(RatMul(final_score, <<9, 10>>))),
         seniority_match |-> Num(<<5, 1>>),
         key_strengths |-> List(FirstN(strengths, 3)),
         critical_gaps |-> List(FirstN(gaps, 3)),
         justification |->
             Str("Automated analysis identified " \o ToString(skill_count)
                 \o " skills. " \o strengths[1] \o " but " \o gaps[1] \o "."),
         recommendation |->
             Str(IF RatLeq(<<5, 1>>, final_score)
                 THEN "Consider" ELSE "Review Needed"),
         interview_focus_areas |->
             List(<<"Technical skills assessment",
                    "Project experience verification",
                    "Technology-specific questions">>),
         overall_assessment |->
             Str("Candidate with " \o ToString(skill_count)
                 \o " identified skills shows potential but requires detailed technical interview.")])

\* the error record with two of its fields forgotten
_create_error_result_partial(error_msg) ==
    Dict(
    [fit_score |-> Num(<<5, 1>>),
     technical_skills_score |-> Num(<<5, 1>>),
     experience_relevance |-> Num(<<5, 1>>),
     seniority_match |-> Num(<<5, 1>>),
     key_strengths |-> List(<<"Manual review required due to system error">>),
     critical_gaps |-> List(<<"Unable to complete automated analysis">>),
     justification |->
         Str("Analysis could not be completed: " \o error_msg
             \o ". Please try again or conduct manual review."),
     recommendation |-> Str("Review Needed")])

_create_error_result(error_msg) ==
    Dict(
    [fit_score |-> Num(<<5, 1>>),
     technical_skills_score |-> Num(<<5, 1>>),
     experience_relevance |-> Num(<<5, 1>>),
     seniority_match |-> Num(<<5, 1>>),
     key_strengths |-> List(<<"Manual review required due to system error">>),
     critical_gaps |-> List(<<"Unable to complete automated analysis">>),
     justification |->
         Str("Analysis could not be completed: " \o error_msg
             \o ". Please try again or conduct manual review."),
     recommendation |-> Str("Review Needed"),
     interview_focus_areas |->
         List(<<"All technical areas need verification">>),
     overall_assessment |-> Str("System error prevented complete analysis")])

\* "not result": None and the empty dict
NoResult(result) == IF result.t = "none" THEN TRUE ELSE DOMAIN result.d = {}

\* outcome: what generate_content did, [kind |-> "raise", exc] or
\* [kind |-> "text", text]
gemini_resume_match(resume_text, jd_text, skills, outcome, order, u) ==
    IF ~IsStr(jd_text) \/ ~IsStr(resume_text)
    THEN _create_error_result("TypeError")
    ELSE IF outcome.kind = "raise"
    THEN _create_error_result(outcome.exc)
    ELSE
    LET result == _extract_and_parse_json(outcome.text)
    IN  IF NoResult(result)
        THEN _create_fallback_result(resume_text, jd_text, skills, order, u)
        ELSE LET valid == _validate_result_structure(result.d, u)
             IN  IF IsRaise(valid) THEN _create_error_result(valid.exc)
                 ELSE valid

\* whether the call above reaches a random.uniform
draws_random(resume_text, jd_text, outcome) ==
    IsStr(jd_text) /\ IsStr(resume_text) /\ outcome.kind = "text"

(***************************************************************************)
(* The score combiner.                                                     *)
(***************************************************************************)
local_weight == <<35, 100>>
gemini_weight == <<65, 100>>

\* line 436 without the clamp
clamp_final_score_round_only(final_score) == Round1(final_score)

\* line 436: max(1.0, min(9.8, round(final_score, 1)))
clamp_final_score(final_score) ==
    RatMax(<<1, 1>>, RatMin(<<49, 5>>, Round1(final_score)))

\* lines 425-433: the weighted sum before rounding and clamping, for a
\* judgment whose two scores are numbers
raw_final_score(local, gemini) ==
    LET gemini_primary_score == gemini.fit_score
        gemini_technical_score ==
            IF "technical_skills_score" \in DOMAIN gemini
            THEN gemini.technical_skills_score
            ELSE gemini_primary_score
    IN  RatAdd(RatMul(local.final_local_score, local_weight),
               RatAdd(RatMul(gemini_primary_score.num,
                             RatMul(gemini_weight, <<6, 10>>)),
                      RatMul(gemini_technical_score.num,
                             RatMul(gemini_weight, <<4, 10>>))))

\* lines 420-449 of comprehensive_match; the timestamp is left out
combine_scores(local, gemini, skills) ==
    LET gemini_primary_score == gemini.fit_score
        gemini_technical_score ==
            IF "technical_skills_score" \in DOMAIN gemini
            THEN gemini.technical_skills_score
            ELSE gemini_primary_score
        loc == RatMul(local.final_local_score, local_weight)
        fit == RatMul(gemini_primary_score.num,
                      RatMul(gemini_weight, <<6, 10>>))
        tech == RatMul(gemini_technical_score.num,
                       RatMul(gemini_weight, <<4, 10>>))
    IN  IF gemini_primary_score.t # "num" \/ gemini_technical_score.t # "num"
        THEN Raise("TypeError")
        ELSE [t |-> "result",
              local_scores |-> local,
              gemini_scores |-> gemini,
              final_score |-> clamp_final_score(raw_final_score(local, gemini)),
              skills_matched |-> skills,
              score_breakdown |->
                  [local_contribution |-> Round1(loc),
                   ai_fit_contribution |-> Round1(fit),
                   ai_technical_contribution |-> Round1(tech)]]

(***************************************************************************)
(* The inputs the checks enumerate.                                        *)
(***************************************************************************)
\* the words of `pool` at the indices I, in the order of pool
RECURSIVE Pick(_, _)
Pick(pool, I) ==
    IF I = {} THEN <<>>
    ELSE LET i == CHOOSE x \in I : \A y \in I : x <= y
         IN  <<pool[i]>> \o Pick(pool, I \ {i})

Picks(pool, most) ==
    {Pick(pool, I) : I \in {J \in SUBSET DOMAIN pool : Cardinality(J) <= most}}

CoreWords == <<"Python", "javascript", "senior", "the">>
SkillWords == <<"python", "aws", "docker">>

\* "Experienced Python developer with AWS and Docker, 8 years", lower-cased
\* but for its capitalised words
ScenarioResume ==
    Text(<<"experienced", "Python", "developer", "with", "aws", "and",
           "docker", "8", "years">>)
\* "Senior Python engineer, AWS required, Docker preferred"
ScenarioJD ==
    Text(<<"Senior", "Python", "engineer", "aws", "required", "docker",
           "preferred">>)
ScenarioSkills == List(<<"python", "aws", "docker">>)

Texts ==
    {Text(w) : w \in Picks(CoreWords, MaxTokens)}
        \cup {ScenarioResume, ScenarioJD, None}
SkillsArgs ==
    {List(l) : l \in Picks(SkillWords, MaxSkills)} \cup {ScenarioSkills, None}

Requests == [resume_text : Texts, jd_text : Texts, skills : SkillsArgs]

(***************************************************************************)
(* The state outside one request: the key the genai module is configured   *)
(* with, the engines, the temporary files and the candidates table.        *)
(***************************************************************************)
\* the slots that hold a MatchingEngine instance
EngineIds == {1, 2}

AppInit ==
    /\ configured_key = None
    /\ engines = [e \in EngineIds |-> None]
    /\ temp_files = {}
    /\ candidates = {}
    /\ sqlite_sequence = 0

(***************************************************************************)
(* SpecLocal: compute_local_similarity called again and again on one       *)
(* request, while other code draws from the random generator.              *)
(***************************************************************************)
InitLocal ==
    /\ pc = "idle"
    /\ request \in Requests
    /\ local_results = None
    /\ response = None
    /\ gemini_results = None
    /\ final_result = None
    /\ rng = 0
    /\ prev_local = None
    /\ args = None
    /\ ret = None
    /\ llm_calls = 0
    /\ AppInit

LocalCall ==
    /\ pc = "idle"
    /\ local_results' = compute_local_similarity(request.resume_text,
                                                 request.jd_text,
                                                 request.skills)
    /\ pc' = "returned"
    /\ UNCHANGED <<request, response, gemini_results, final_result, rng,
                   prev_local, args, ret,
                   llm_calls, app_vars>>

LocalReturn ==
    /\ pc = "returned"
    /\ prev_local' = local_results
    /\ pc' = "idle"
    /\ UNCHANGED <<request, local_results, response, gemini_results,
                   final_result, rng, args, ret,
                   llm_calls, app_vars>>

\* random.uniform called by other code between two calls
RandomDraw ==
    /\ pc = "idle"
    /\ \E u \in 0..RngGrid : rng' = u
    /\ UNCHANGED <<pc, request, local_results, response, gemini_results,
                   final_result, prev_local, args, ret,
                   llm_calls, app_vars>>

NextLocal == LocalCall \/ LocalReturn \/ RandomDraw

SpecLocal == InitLocal /\ [][NextLocal]_vars

(***************************************************************************)
(* SpecCurve: the scaling curve and the scoring formula as pure functions. *)
(* A "curve" argument holds two raw combined scores a and b; a "formula"   *)
(* argument holds two documents' sub-metrics that differ in one of them    *)
(* only (the keyword or the fuzzy score: x for the first, y for the        *)
(* second document).                                                       *)
(***************************************************************************)
CurveArgs ==
    [kind : {"curve"}, a : 0..CurveGrid, b : 0..CurveGrid]
FormulaArgs ==
    [kind : {"formula"}, which : {"keyword", "fuzzy"},
     x : 0..MetricGrid, y : 0..MetricGrid, other : 0..MetricGrid,
     category : {<<0, 1>>, <<1, 2>>, <<1, 1>>},
     experience : {<<1, 5>>, <<1, 2>>, <<19, 20>>}]

\* lines 56-71 on given sub-metrics: the final_local_score
local_score_of(keyword_score, category_score, experience_score, fuzzy_score) ==
    Round1(_apply_scaling_curve(
        combined_score(keyword_score, category_score, experience_score,
                       fuzzy_score)))

InitCurve ==
    /\ pc = "idle"
    /\ request = None
    /\ local_results = None
    /\ response = None
    /\ gemini_results = None
    /\ final_result = None
    /\ rng = 0
    /\ prev_local = None
    /\ args \in CurveArgs \cup FormulaArgs
    /\ ret = None
    /\ llm_calls = 0
    /\ AppInit

ApplyCurve ==
    /\ pc = "idle"
    /\ args.kind = "curve"
    /\ ret' = [fa |-> _apply_scaling_curve(Rat(args.a, CurveGrid)),
               fb |-> _apply_scaling_curve(Rat(args.b, CurveGrid))]
    /\ pc' = "returned"
    /\ UNCHANGED <<request, local_results, response, gemini_results,
                   final_result, rng, prev_local, args,
                   llm_calls, app_vars>>

ApplyFormula ==
    /\ pc = "idle"
    /\ args.kind = "formula"
    /\ LET x == Rat(args.x, MetricGrid)
           y == Rat(args.y, MetricGrid)
           o == Rat(args.other, MetricGrid)
       IN  ret' = IF args.which = "keyword"
                  THEN [fa |-> local_score_of(x, args.category,
                                              args.experience, o),
                        fb |-> local_score_of(y, args.category,
                                              args.experience, o)]
                  ELSE [fa |-> local_score_of(o, args.category,
                                              args.experience, x),
                        fb |-> local_score_of(o, args.category,
                                              args.experience, y)]
    /\ pc' = "returned"
    /\ UNCHANGED <<request, local_results, response, gemini_results,
                   final_result, rng, prev_local, args,
                   llm_calls, app_vars>>

NextCurve == ApplyCurve \/ ApplyFormula

SpecCurve == InitCurve /\ [][NextCurve]_vars

(***************************************************************************)
(* SpecWeights: the weighted sum of comprehensive_match as a pure function *)
(* of the local score and of the judgment's scores.  The result holds the  *)
(* sum for the given scores and what one more point of each score adds.    *)
(***************************************************************************)
WeightArgs ==
    [kind : {"weights"}, local : 0..MetricGrid, fit : 0..MetricGrid,
     technical : 0..MetricGrid, experience : 0..MetricGrid]

\* the sum of lines 429-433 for the four scores
sum_of(local, fit, technical, experience) ==
    raw_final_score([final_local_score |-> Rat(local, 1)],
                    [fit_score |-> Num(Rat(fit, 1)),
                     technical_skills_score |-> Num(Rat(technical, 1)),
                     experience_relevance |-> Num(Rat(experience, 1))])

InitWeights ==
    /\ pc = "idle"
    /\ request = None
    /\ local_results = None
    /\ response = None
    /\ gemini_results = None
    /\ final_result = None
    /\ rng = 0
    /\ prev_local = None
    /\ args \in WeightArgs
    /\ ret = None
    /\ llm_calls = 0
    /\ AppInit

ApplyWeights ==
    /\ pc = "idle"
    /\ args.kind = "weights"
    /\ LET l == args.local
           f == args.fit
           t == args.technical
           e == args.experience
           base == sum_of(l, f, t, e)
       IN  ret' = [base |-> base,
                   d_local |-> RatSub(sum_of(l + 1, f, t, e), base),
                   d_fit |-> RatSub(sum_of(l, f + 1, t, e), base),
                   d_technical |-> RatSub(sum_of(l, f, t + 1, e), base),
                   d_experience |-> RatSub(sum_of(l, f, t, e + 1), base),
                   d_all |-> RatSub(sum_of(l + 1, f + 1, t + 1, e + 1), base)]
    /\ pc' = "returned"
    /\ UNCHANGED <<request, local_results, response, gemini_results,
                   final_result, rng, prev_local, args,
                   llm_calls, app_vars>>

WeightsReturn ==
    /\ pc = "returned"
    /\ pc' = "idle"
    /\ ret' = None
    /\ UNCHANGED <<request, local_results, response, gemini_results,
                   final_result, rng, prev_local, args,
                   llm_calls, app_vars>>

NextWeights == ApplyWeights \/ WeightsReturn

SpecWeights == InitWeights /\ [][NextWeights]_vars

(***************************************************************************)
(* Spec: one comprehensive_match request, from the call to its return or   *)
(* its exception, against an LLM that raises or answers with any of the    *)
(* response texts below.                                                   *)
(***************************************************************************)
EngineRequests ==
    [resume_text : {ScenarioResume, Text(<<"Python">>), Text(<<>>), None},
     jd_text : {ScenarioJD, Text(<<"javascript">>)},
     skills : {ScenarioSkills, None}]

\* the members of an object, a member left out where its option is None
Members(fit, tech, rec) ==
    (IF fit = None THEN <<>> ELSE <<Pair("fit_score", fit)>>)
    \o (IF tech = None THEN <<>> ELSE <<Pair("technical_skills_score", tech)>>)
    \o (IF rec = None THEN <<>> ELSE <<Pair("recommendation", rec)>>)

\* "{" m1 "," m2 ... "}"
RECURSIVE Joined(_)
Joined(members) ==
    IF Len(members) <= 1 THEN members
    ELSE <<Head(members), Comma>> \o Joined(Tail(members))
Obj(members) == <<LB>> \o Joined(members) \o <<RB>>

FitOptions ==
    {None, Num(<<7, 1>>), Num(<<29, 4>>), Num(<<9, 1>>), Num(<<12, 1>>),
     Num(<<1, 1>>), Num(<<-3, 1>>), Null, Str("8")}
TechOptions ==
    {None, Num(<<8, 1>>), Num(<<1, 1>>), Num(<<100, 1>>), Num(<<-50, 1>>),
     Null, Str("8")}
RecOptions == {None, Str("Reject"), Str("Strong Recommend")}

ObjectTexts ==
    {Obj(Members(f, t, r)) :
        f \in FitOptions, t \in TechOptions, r \in RecOptions}

OtherTexts ==
    {<<Prose>>,
     <<Pair("fit_score", Num(<<8, 1>>))>>,
     <<LB, Pair("fit_score", Num(<<8, 1>>))>>,
     <<Pair("fit_score", Num(<<8, 1>>)), RB>>,
     <<RB, Prose, LB>>,
     <<LB, Prose>>,
     <<LB, Prose, RB>>,
     <<Prose, LB, Pair("fit_score", Num(<<9, 1>>)), Comma, RB, Prose>>,
     <<LB, Ctrl, Pair("fit_score", Num(<<6, 1>>)), RB>>,
     <<LB, Pair("fit_score", Num(<<6, 1>>)), Comma, Comma, RB>>,
     <<LB, Pair("fit_score", Num(<<-3, 1>>)), Prose, RB>>,
     <<LB, Pair("fit_score", Num(<<9, 1>>)), Prose,
       Pair("recommendation", Str("Reject")),
       Pair("key_strengths", List(<<>>)), RB>>,
     <<LB, Pair("fit_score", Num(<<3, 1>>)), Comma,
       Pair("key_strengths", List(<<>>)), Comma,
       Pair("critical_gaps", Null), Comma,
       Pair("fit_score", Num(<<8, 1>>)), RB>>,
     <<LB, Pair("fit_score", Num(<<7, 1>>)), Comma,
       Pair("strengths", List(<<"Python">>)), RB>>}

Responses == ObjectTexts \cup OtherTexts

LLMErrors == {"ConnectionError", "PermissionDenied", "ResourceExhausted"}

Perms(S) ==
    {q \in [1..Cardinality(S) -> S] :
        \A i, j \in DOMAIN q : i # j => q[i] # q[j]}

\* the orders in which the loop of _create_fallback_result can meet the
\* technology keywords of the job text
KeywordOrders(jd_text) ==
    Perms({k \in tech_keywords : Contains(LowerText(jd_text.words), k)})

\* comprehensive_match with one more attempt after a call that raised
Finish_retry(req, local, gemini) ==
    IF /\ pc = "llm"
       /\ llm_calls = 0
       /\ gemini \in {_create_error_result(exc) : exc \in LLMErrors}
    THEN /\ pc' = "llm"
         /\ UNCHANGED <<gemini_results, final_result>>
    ELSE LET final == combine_scores(local, gemini.d, req.skills)
         IN  /\ gemini_results' = gemini.d
             /\ final_result' = final
             /\ pc' = IF IsRaise(final) THEN "raised" ELSE "done"

\* comprehensive_match from the judgment on
Finish(req, local, gemini) ==
    LET final == combine_scores(local, gemini.d, req.skills)
    IN  /\ gemini_results' = gemini.d
        /\ final_result' = final
        /\ pc' = IF IsRaise(final) THEN "raised" ELSE "done"

Init ==
    /\ pc = "idle"
    /\ request = None
    /\ local_results = None
    /\ response = None
    /\ gemini_results = None
    /\ final_result = None
    /\ rng = 0
    /\ prev_local = None
    /\ args = None
    /\ ret = None
    /\ llm_calls = 0
    /\ AppInit

\* comprehensive_match is called: the local score, then the prompt; with a
\* text that is None no request is sent and the call ends here
Call ==
    /\ pc = "idle"
    /\ \E req \in EngineRequests :
        LET local == compute_local_similarity(req.resume_text, req.jd_text,
                                              req.skills)
        IN  /\ request' = req
            /\ local_results' = local
            /\ IF IsStr(req.resume_text) /\ IsStr(req.jd_text)
               THEN /\ pc' = "llm"
                    /\ UNCHANGED <<gemini_results, final_result>>
               ELSE Finish(req, local,
                           gemini_resume_match(req.resume_text, req.jd_text,
                                               req.skills, None, <<>>, 0))
    /\ UNCHANGED <<response, rng, prev_local, args, ret,
                   llm_calls, app_vars>>

\* generate_content (or response.text) raises
LLMRaise ==
    /\ pc = "llm"
    /\ \E exc \in LLMErrors :
        /\ response' = [kind |-> "raise", exc |-> exc]
        /\ Finish(request, local_results,
                  gemini_resume_match(request.resume_text, request.jd_text,
                                      request.skills, response', <<>>, 0))
    /\ llm_calls' = llm_calls + 1
    /\ UNCHANGED <<request, local_results, rng, prev_local, args, ret,
                   app_vars>>

\* generate_content returns a text that yields a record; _validate_result_structure
\* draws one random.uniform
LLMRespondParsed ==
    /\ pc = "llm"
    /\ \E text \in Responses :
        /\ ~NoResult(_extract_and_parse_json(text))
        /\ \E u \in 0..RngGrid :
            /\ response' = [kind |-> "text", text |-> text]
            /\ Finish(request, local_results,
                      gemini_resume_match(request.resume_text, request.jd_text,
                                          request.skills, response', <<>>, u))
            /\ rng' = u
    /\ llm_calls' = llm_calls + 1
    /\ UNCHANGED <<request, local_results, prev_local, args, ret,
                   app_vars>>

\* generate_content returns a text that yields no record; _create_fallback_result
\* iterates over the technology keywords and draws one random.uniform
LLMRespondUnparsed ==
    /\ pc = "llm"
    /\ \E text \in Responses :
        /\ NoResult(_extract_and_parse_json(text))
        /\ \E order \in KeywordOrders(request.jd_text), u \in 0..RngGrid :
            /\ response' = [kind |-> "text", text |-> text]
            /\ Finish(request, local_results,
                      gemini_resume_match(request.resume_text, request.jd_text,
                                          request.skills, response', order, u))
            /\ rng' = u
    /\ llm_calls' = llm_calls + 1
    /\ UNCHANGED <<request, local_results, prev_local, args, ret,
                   app_vars>>

Next == Call \/ LLMRaise \/ LLMRespondParsed \/ LLMRespondUnparsed

Spec == Init /\ [][Next]_vars

(***************************************************************************)
(* SpecBlocking: the engine with an LLM call that may also never return.   *)
(* generate_content is called at line 237 without a timeout and on the     *)
(* calling thread, so while it blocks no other step of the engine is       *)
(* enabled.                                                                *)
(***************************************************************************)
LLMHang ==
    /\ pc = "llm"
    /\ pc' = "blocked"
    /\ response' = [kind |-> "blocked"]
    /\ llm_calls' = llm_calls + 1
    /\ UNCHANGED <<request, local_results, gemini_results, final_result, rng,
                   prev_local, args, ret,
                   app_vars>>

NextBlocking ==
    Call \/ LLMRaise \/ LLMRespondParsed \/ LLMRespondUnparsed \/ LLMHang

SpecBlocking == Init /\ [][NextBlocking]_vars

(***************************************************************************)
(* SpecCredentials: engines built with API keys, and their LLM calls, in   *)
(* any order.  genai.configure (line 17) stores the key in the genai       *)
(* module, and GenerativeModel (line 18) is given no key: the model takes  *)
(* its client at its first generate_content, made from the key the module  *)
(* holds at that moment, and keeps it.                                     *)
(***************************************************************************)
ApiKeys == {"key-a", "key-b", "key-c"}

\* the variables of one comprehensive_match request
request_vars ==
    <<request, local_results, response, gemini_results, final_result, rng,
      prev_local, llm_calls>>

\* MatchingEngine(gemini_api_key), as initialize_gemini builds it
Construct ==
    /\ \E e \in EngineIds, key \in ApiKeys :
        /\ engines' = [engines EXCEPT
                          ![e] = [gemini_api_key |-> key, client |-> "unbound"]]
        /\ configured_key' = key
    /\ pc' = "constructed"
    /\ UNCHANGED <<request_vars, args, ret, temp_files, candidates,
                   sqlite_sequence>>

\* the key of the client generate_content of engine e sends the request with
client_key(e) ==
    IF engines[e].client = "unbound" THEN configured_key ELSE engines[e].client

\* self.gemini_model.generate_content(prompt) of engine e
GenerateContent ==
    /\ \E e \in EngineIds :
        /\ engines[e] # None
        /\ engines' = [engines EXCEPT ![e].client = client_key(e)]
        /\ ret' = [engine |-> e, credential |-> client_key(e)]
    /\ pc' = "called"
    /\ UNCHANGED <<request_vars, args, configured_key, temp_files, candidates,
                   sqlite_sequence>>

NextCredentials == Construct \/ GenerateContent

SpecCredentials == Init /\ [][NextCredentials]_vars

(***************************************************************************)
(* The file processor (src/file_processor.py).  A path is a record: whether *)
(* os.path.exists holds of it, the extension os.path.splitext gives, the    *)
(* units of text the library reads (pages, paragraphs, the file's text; a   *)
(* page without text is the empty unit), and whether reading succeeds.      *)
(***************************************************************************)
Space == " "
Newline == "\n"
Whitespace == {Space, Newline}

\* str.strip()
RECURSIVE LStrip(_)
LStrip(seq) ==
    IF seq # <<>> /\ Head(seq) \in Whitespace THEN LStrip(Tail(seq)) ELSE seq
RECURSIVE RStrip(_)
RStrip(seq) ==
    IF seq # <<>> /\ seq[Len(seq)] \in Whitespace
    THEN RStrip(SubSeq(seq, 1, Len(seq) - 1)) ELSE seq
Strip(seq) == RStrip(LStrip(seq))

\* str.lower() on the extensions used here
LowerExt(ext) ==
    CASE ext = ".PDF" -> ".pdf"
      [] ext = ".Docx" -> ".docx"
      [] ext = ".TXT" -> ".txt"
      [] OTHER -> ext

\* text += page_text + "\n" for every page that has text
RECURSIVE PagesText(_)
PagesText(units) ==
    IF units = <<>> THEN <<>>
    ELSE (IF Head(units) = <<>> THEN <<>> ELSE Head(units) \o <<Newline>>)
         \o PagesText(Tail(units))

\* "\n".join(paragraphs)
RECURSIVE JoinParagraphs(_)
JoinParagraphs(units) ==
    IF units = <<>> THEN <<>>
    ELSE IF Len(units) = 1 THEN Head(units)
    ELSE Head(units) \o <<Newline>> \o JoinParagraphs(Tail(units))

\* f.read()
RECURSIVE ReadAll(_)
ReadAll(units) ==
    IF units = <<>> THEN <<>> ELSE Head(units) \o ReadAll(Tail(units))

extract_text_from_pdf(file) ==
    IF file.readable THEN Text(Strip(PagesText(file.units)))
    ELSE Raise("PDFSyntaxError")

extract_text_from_docx(file) ==
    IF file.readable THEN Text(Strip(JoinParagraphs(file.units)))
    ELSE Raise("PackageNotFoundError")

read_text_file(file) ==
    IF file.readable THEN Text(Strip(ReadAll(file.units)))
    ELSE Raise("UnicodeDecodeError")

\* the dispatch comparing the extension as it is written
process_file_case_sensitive(file) ==
    IF ~file.exists THEN Raise("FileNotFoundError")
    ELSE IF file.ext = ".pdf" THEN extract_text_from_pdf(file)
    ELSE IF file.ext = ".docx" THEN extract_text_from_docx(file)
    ELSE IF file.ext = ".txt" THEN read_text_file(file)
    ELSE Raise("ValueError")

process_file(file) ==
    IF ~file.exists THEN Raise("FileNotFoundError")
    ELSE LET file_ext == LowerExt(file.ext)
         IN  IF file_ext = ".pdf" THEN extract_text_from_pdf(file)
             ELSE IF file_ext = ".docx" THEN extract_text_from_docx(file)
             ELSE IF file_ext = ".txt" THEN read_text_file(file)
             ELSE Raise("ValueError")

Extensions ==
    {".pdf", ".PDF", ".docx", ".Docx", ".txt", ".TXT", ".doc", ".bak", ""}
FileUnits ==
    {<<>>, <<<<"Python">>>>, <<<<Space, "Python", Newline>>>>,
     <<<<"Python">>, <<>>, <<"senior", Space>>>>}
Files ==
    [exists : BOOLEAN, ext : Extensions, units : FileUnits,
     readable : BOOLEAN]

InitFile ==
    /\ pc = "idle"
    /\ request = None
    /\ local_results = None
    /\ response = None
    /\ gemini_results = None
    /\ final_result = None
    /\ rng = 0
    /\ prev_local = None
    /\ args = None
    /\ ret = None
    /\ llm_calls = 0
    /\ AppInit

ProcessFile ==
    /\ pc = "idle"
    /\ \E file \in Files :
        /\ args' = file
        /\ ret' = process_file(file)
    /\ pc' = "returned"
    /\ UNCHANGED <<request, local_results, response, gemini_results,
                   final_result, rng, prev_local,
                   llm_calls, app_vars>>

FileReturn ==
    /\ pc = "returned"
    /\ pc' = "idle"
    /\ UNCHANGED <<request, local_results, response, gemini_results,
                   final_result, rng, prev_local, args, ret,
                   llm_calls, app_vars>>

NextFile == ProcessFile \/ FileReturn

SpecFile == InitFile /\ [][NextFile]_vars

(***************************************************************************)
(* The claims.                                                             *)
(***************************************************************************)
Returned == pc \in {"done", "raised"}

ScenarioRequest ==
    [resume_text |-> ScenarioResume, jd_text |-> ScenarioJD,
     skills |-> ScenarioSkills]

RatAbs(x) == <<Abs(x[1]), x[2]>>

\* the LLM gave no usable answer: the call raised, or no record came out of
\* the text
LLMUnavailable ==
    IF response.kind = "raise" THEN TRUE
    ELSE NoResult(_extract_and_parse_json(response.text))

\* C1: comprehensive_match never raises, whatever the LLM does: for two string
\* documents it always returns a FinalResult.
C1_NeverRaises ==
    pc = "raised" =>
        ~(IsStr(request.resume_text) /\ IsStr(request.jd_text))

\* C2: every FinalResult comprehensive_match returns has its final_score in
\* [1.0, 9.8].
C2_FinalScoreInRange ==
    pc = "done" =>
        /\ RatLeq(<<1, 1>>, final_result.final_score)
        /\ RatLeq(final_result.final_score, <<98, 10>>)

\* C2 witness: a returned result whose weighted sum was above 9.8
C2_Witness ==
    /\ pc = "done"
    /\ final_result.final_score = <<49, 5>>
    /\ RatLess(<<10, 1>>, gemini_results.technical_skills_score.num)

\* C3: compute_local_similarity returns a final_local_score in [0, 10] with
\* one decimal, on the normal path and on the exception path.
C3_LocalScoreInRange ==
    pc = "returned" =>
        /\ RatLeq(<<0, 1>>, local_results.final_local_score)
        /\ RatLeq(local_results.final_local_score, <<10, 1>>)
        /\ 10 % local_results.final_local_score[2] = 0

\* C3 witness: a score of the normal path, above the default of the
\* exception path
C3_Witness ==
    /\ pc = "returned"
    /\ IsStr(request.resume_text)
    /\ IsStr(request.jd_text)
    /\ RatLess(<<4, 1>>, local_results.final_local_score)

\* the banding table of the specification
Band(fit_score) ==
    IF RatLeq(<<85, 10>>, fit_score) THEN "Strong Recommend"
    ELSE IF RatLeq(<<7, 1>>, fit_score) THEN "Recommend"
    ELSE IF RatLeq(<<55, 10>>, fit_score) THEN "Consider"
    ELSE IF RatLeq(<<4, 1>>, fit_score) THEN "Not Recommended"
    ELSE "Reject"

\* C4: in every judgment gemini_resume_match returns, recommendation is the
\* label the banding table gives to the returned fit_score.
C4_RecommendationBanded ==
    Returned =>
        gemini_results.recommendation = Str(Band(gemini_results.fit_score.num))

\* C5: the three contributions of the breakdown sum to within 0.1 of
\* final_score.
C5_BreakdownSums ==
    pc = "done" =>
        LET b == final_result.score_breakdown
            sum == RatAdd(b.local_contribution,
                          RatAdd(b.ai_fit_contribution,
                                 b.ai_technical_contribution))
        IN  RatLeq(RatAbs(RatSub(sum, final_result.final_score)), <<1, 10>>)

\* C6: when the LLM call raises or returns a text that is not JSON, the
\* judgment has every required field and a fit_score in [1, 10].
C6_FallbackComplete ==
    (/\ Returned
     /\ response # None
     /\ IF response.kind = "raise" THEN TRUE
        ELSE ~IsJSONObject(response.text))
    => /\ DOMAIN required_fields \subseteq DOMAIN gemini_results
       /\ gemini_results.fit_score.t = "num"
       /\ RatLeq(<<1, 1>>, gemini_results.fit_score.num)
       /\ RatLeq(gemini_results.fit_score.num, <<10, 1>>)

\* C6 witness: the call raised and a judgment came back
C6_Witness ==
    /\ Returned
    /\ response # None
    /\ response.kind = "raise"
    /\ DOMAIN required_fields \subseteq DOMAIN gemini_results

\* C7: the scaling curve is monotone, across its breakpoints too, and so is
\* the final_local_score in the keyword score and in the fuzzy score.
C7_CurveMonotone ==
    pc = "returned" =>
        /\ (args.kind = "curve" /\ args.a < args.b) => RatLeq(ret.fa, ret.fb)
        /\ (args.kind = "formula" /\ args.x < args.y) => RatLeq(ret.fa, ret.fb)

\* C7 witness: two raw scores on either side of the breakpoint 0.7
C7_Witness ==
    /\ pc = "returned"
    /\ args.kind = "curve"
    /\ RatLess(Rat(args.a, CurveGrid), <<7, 10>>)
    /\ RatLeq(<<7, 10>>, Rat(args.b, CurveGrid))
    /\ RatLess(ret.fa, ret.fb)

\* C8: a call of compute_local_similarity returns the record the previous
\* call with the same arguments returned, whatever was drawn from the random
\* generator in between.
C8_LocalDeterministic ==
    (pc = "returned" /\ prev_local # None) => local_results = prev_local

\* C8 witness: a second call on two texts, after a draw
C8_Witness ==
    /\ pc = "returned"
    /\ prev_local # None
    /\ rng # 0
    /\ IsStr(request.resume_text)
    /\ IsStr(request.jd_text)
    /\ local_results = prev_local

\* C9: in the scenario of the specification the final_local_score is above 6.
C9_ScenarioLocalScore ==
    (pc = "returned" /\ request = ScenarioRequest) =>
        RatLess(<<6, 1>>, local_results.final_local_score)

\* C10: in that scenario, with the LLM unavailable, the judgment has a
\* fit_score of at least 6.5 whatever the jitter.
C10_ScenarioFallbackFit ==
    (pc = "done" /\ request = ScenarioRequest /\ LLMUnavailable) =>
        RatLeq(<<65, 10>>, gemini_results.fit_score.num)

\* C11: with an empty resume text and a non-empty job text,
\* compute_local_similarity returns one fixed final_local_score, the same
\* for every job text and every skills list (here: the one it returns for
\* the job text of the scenario).
C11_EmptyResumeFloor ==
    (/\ pc = "returned"
     /\ request.resume_text = Text(<<>>)
     /\ IsStr(request.jd_text)
     /\ request.jd_text.words # <<>>)
    => local_results.final_local_score =
           compute_local_similarity(Text(<<>>), ScenarioJD,
                                    ScenarioSkills).final_local_score

\* C15: when skills is None or empty, the category sub-metric of the record
\* is the neutral 50.0.
C15_NeutralCategory ==
    (/\ pc = "returned"
     /\ IsStr(request.resume_text)
     /\ IsStr(request.jd_text)
     /\ Falsy(request.skills))
    => local_results.category_match = <<50, 1>>

\* C16: an exception inside compute_local_similarity (a document that is
\* None) is caught: the record has its four sub-metrics at 0 and the default
\* final_local_score 3.0.
C16_ExceptionRecord ==
    (/\ pc = "returned"
     /\ IF IsStr(request.resume_text) THEN ~IsStr(request.jd_text) ELSE TRUE)
    => /\ local_results.keyword_match = <<0, 1>>
       /\ local_results.category_match = <<0, 1>>
       /\ local_results.experience_match = <<0, 1>>
       /\ local_results.text_similarity = <<0, 1>>
       /\ local_results.final_local_score = <<3, 1>>

\* C16 witness: the call returned for a resume that is None and a job text
C16_Witness ==
    /\ pc = "returned"
    /\ request.resume_text = None
    /\ IsStr(request.jd_text)
    /\ local_results.final_local_score = <<3, 1>>

\* the text has no "{" or no "}"
NoBraces(text) == IF FindLB(text) < 0 THEN TRUE ELSE RFindRBPlus1(text) = 0

\* C12: when the response text has no "{" or no "}", no record is extracted
\* and the judgment is the one _create_fallback_result builds, with every
\* required field.
C12_NoBracesFallback ==
    (/\ Returned
     /\ response # None
     /\ IF response.kind = "text" THEN NoBraces(response.text) ELSE FALSE)
    => /\ \E order \in KeywordOrders(request.jd_text) :
            gemini_results =
                _create_fallback_result(request.resume_text, request.jd_text,
                                        request.skills, order, rng).d
       /\ DOMAIN required_fields \subseteq DOMAIN gemini_results

\* C12 witness: a text that names a fit_score but has no braces was answered
C12_Witness ==
    /\ pc = "done"
    /\ response # None
    /\ response.kind = "text"
    /\ response.text = <<Pair("fit_score", Num(<<8, 1>>))>>
    /\ gemini_results.interview_focus_areas.items[1]
           = "Technical skills assessment"

supported_extensions == {".pdf", ".docx", ".txt"}

\* C13: process_file fails with FileNotFoundError for a path that does not
\* exist, with ValueError for an existing file whose lower-cased extension
\* is not .pdf, .docx or .txt, and otherwise returns the extracted text.
C13_ProcessFileOutcomes ==
    pc = "returned" =>
        /\ ~args.exists => ret = Raise("FileNotFoundError")
        /\ (args.exists /\ LowerExt(args.ext) \notin supported_extensions)
               => ret = Raise("ValueError")
        /\ (args.exists /\ LowerExt(args.ext) \in supported_extensions)
               => ret.t = "str"

\* C13 as amended: for an existing file with a supported extension the
\* result is the stripped text of the extractor of that extension, or the
\* exception that extractor raised.
C13_ProcessFileOutcomesAmended ==
    pc = "returned" =>
        /\ ~args.exists => ret = Raise("FileNotFoundError")
        /\ (args.exists /\ LowerExt(args.ext) \notin supported_extensions)
               => ret = Raise("ValueError")
        /\ (args.exists /\ LowerExt(args.ext) \in supported_extensions)
               => IF args.readable
                  THEN /\ ret.t = "str"
                       /\ ret.words = Strip(ret.words)
                       /\ \A w \in {"Python", "senior"} :
                            (\E i \in DOMAIN ret.words : ret.words[i] = w)
                            <=> (\E u \in DOMAIN args.units :
                                   \E i \in DOMAIN args.units[u] :
                                      args.units[u][i] = w)
                  ELSE ret \in {Raise("PDFSyntaxError"),
                                Raise("PackageNotFoundError"),
                                Raise("UnicodeDecodeError")}

\* C13 witness: an existing file with an upper-case extension was read
C13_Witness ==
    /\ pc = "returned"
    /\ args.exists
    /\ args.ext = ".PDF"
    /\ args.readable
    /\ ret = Text(<<"Python", Newline, "senior">>)

\* C14: when the LLM call blocks without end, comprehensive_match still
\* returns eventually: while the call is blocked, a step of the engine (the
\* timeout that ends the call) is possible.
C14_BlockedCallReturns ==
    pc = "blocked" => ENABLED <<NextBlocking>>_vars

\* the technology keywords the job text names, and those of them the resume
\* names too
JobTerms == {k \in tech_keywords : Contains(LowerText(request.jd_text.words), k)}
MatchedTerms ==
    {k \in JobTerms : Contains(LowerText(request.resume_text.words), k)}

\* the stepped table of the specification, on the ratio matched / total
StepCentre(matched, total) ==
    IF 10 * matched >= 8 * total THEN <<8, 1>>
    ELSE IF 10 * matched >= 6 * total THEN <<13, 2>>
    ELSE IF 10 * matched >= 4 * total THEN <<5, 1>>
    ELSE IF 10 * matched >= 2 * total THEN <<7, 2>>
    ELSE <<2, 1>>

\* the response was a text and no record came out of it
FallbackTaken ==
    /\ response # None
    /\ IF response.kind = "text"
       THEN NoResult(_extract_and_parse_json(response.text)) ELSE FALSE

\* the response was a text and a record came out of it
RecordParsed ==
    /\ response # None
    /\ IF response.kind = "text"
       THEN ~NoResult(_extract_and_parse_json(response.text)) ELSE FALSE

\* C17: in the heuristic fallback the fit_score is within a few tenths (0.5)
\* of the step the table gives to the match ratio.
C17_FallbackStepTable ==
    (pc = "done" /\ FallbackTaken /\ JobTerms # {})
    => RatLeq(RatAbs(RatSub(gemini_results.fit_score.num,
                            StepCentre(Cardinality(MatchedTerms),
                                       Cardinality(JobTerms)))),
              <<1, 2>>)

\* C18: when the LLM call raises, the judgment is the one the keyword
\* fallback heuristic computes from the two texts.
C18_RaiseUsesHeuristic ==
    (/\ Returned
     /\ response # None
     /\ response.kind = "raise")
    => \E order \in KeywordOrders(request.jd_text), u \in 0..RngGrid :
          gemini_results =
              _create_fallback_result(request.resume_text, request.jd_text,
                                      request.skills, order, u).d

\* C19: for a non-empty parsed record, each missing field is returned with
\* its neutral default (a strength or gap list also when it is present but
\* empty), a record without fit_score is returned with fit_score 5.0, and
\* the returned fit_score is in [1, 10].
C19_ValidationDefaults ==
    (Returned /\ RecordParsed)
    => LET parsed == _extract_and_parse_json(response.text).d
       IN  /\ \A f \in DOMAIN required_fields :
                f \notin DOMAIN parsed => gemini_results[f] = required_fields[f]
           /\ \A f \in {"key_strengths", "critical_gaps"} :
                (f \in DOMAIN parsed /\ parsed[f] = List(<<>>))
                    => gemini_results[f] = required_fields[f]
           /\ RatLeq(<<1, 1>>, gemini_results.fit_score.num)
           /\ RatLeq(gemini_results.fit_score.num, <<10, 1>>)

\* C20: when the response parses, the returned fit_score is the parsed value
\* clamped to [1, 10], whatever the random generator yields.
C20_ParsedFitNotJittered ==
    (Returned /\ RecordParsed)
    => LET parsed == _extract_and_parse_json(response.text).d
       IN  ("fit_score" \in DOMAIN parsed /\ parsed.fit_score.t = "num")
           => gemini_results.fit_score.num
                  = clamp_fit_score(parsed.fit_score.num, <<0, 1>>)

\* C21: before clamping and rounding the final score is a weighted sum
\* whose weights total 1: 30-35% for the local score, 65-70% for the
\* judgment, 50-60% of the judgment's share for fit_score, and a non-zero
\* weight for each of the technical and the experience sub-score.
C21_WeightShares ==
    (pc = "returned" /\ args.kind = "weights")
    => LET llm == RatAdd(ret.d_fit, RatAdd(ret.d_technical, ret.d_experience))
       IN  /\ ret.d_all = <<1, 1>>
           /\ RatLeq(<<30, 100>>, ret.d_local)
           /\ RatLeq(ret.d_local, <<35, 100>>)
           /\ RatLeq(<<65, 100>>, llm)
           /\ RatLeq(llm, <<70, 100>>)
           /\ RatLeq(RatMul(<<1, 2>>, llm), ret.d_fit)
           /\ RatLeq(ret.d_fit, RatMul(<<6, 10>>, llm))
           /\ RatLess(<<0, 1>>, ret.d_technical)
           /\ RatLess(<<0, 1>>, ret.d_experience)

\* lines 265-269: the text from the first "{" to the last "}", cleaned
json_candidate(text) ==
    StripControl(StripTrailingCommas(
        SubSeq(text, FindLB(text) + 1, RFindRBPlus1(text))))

\* json.loads accepts the cleaned text between the braces
JSONParses(text) ==
    IF NoBraces(text) THEN FALSE
    ELSE IF RFindRBPlus1(text) > FindLB(text)
    THEN IsJSONObject(json_candidate(text)) ELSE FALSE

\* the judgment is the one of the heuristic fallback
UsedFallback ==
    gemini_results.interview_focus_areas =
        List(<<"Technical skills assessment",
               "Project experience verification",
               "Technology-specific questions">>)

\* the judgment is what validation makes of the record `d`: the validated
\* record, or the error record when validation raises
JudgmentFrom(d) ==
    LET valid == _validate_result_structure(d, rng)
    IN  gemini_results =
            IF IsRaise(valid) THEN _create_error_result(valid.exc).d
            ELSE valid.d

C25_LocalScoreCeiling ==
    pc = "returned" => RatLeq(local_results.final_local_score, <<24, 5>>)

\* C25 witness: a call whose combined score lies on the last segment of the
\* curve (a final_local_score above 4.0), still below the ceiling
C25_Witness ==
    /\ pc = "returned"
    /\ IsStr(request.resume_text)
    /\ IsStr(request.jd_text)
    /\ RatLeq(<<9, 2>>, local_results.final_local_score)
    /\ RatLeq(local_results.final_local_score, <<24, 5>>)

\* the technology keywords of the job text that a resume names
MatchedBy(resume_text) ==
    {k \in JobTerms : Contains(LowerText(resume_text.words), k)}

\* line 380 for a resume, with the job text and the skills of the request
BaseScoreOf(resume_text) ==
    LET order == CHOOSE o \in KeywordOrders(request.jd_text) : TRUE
    IN  fallback_base_score(
            skill_count_of(request.skills),
            Len(fallback_strengths(LowerText(resume_text.words), order)))

\* C26: in the heuristic fallback, with the job text and the skills list
\* fixed, a resume that matches a subset of the technologies the request's
\* resume matches has a base score no higher than the request's.
C26_FallbackBaseMonotone ==
    (pc = "done" /\ FallbackTaken)
    => \A other \in {r \in {q.resume_text : q \in EngineRequests} : IsStr(r)} :
          MatchedBy(other) \subseteq MatchedTerms
          => RatLeq(BaseScoreOf(other), BaseScoreOf(request.resume_text))

\* the prompt of lines 184-235 can be built: both documents are strings
PromptBuilt == IsStr(request.resume_text) /\ IsStr(request.jd_text)

\* C27: each comprehensive_match request calls the LLM exactly once, after
\* the local score is there, and a failed or unparseable response is not
\* followed by a second call.
C27_ExactlyOneLLMCall ==
    /\ pc = "llm" => (local_results # None /\ llm_calls = 0)
    /\ Returned => llm_calls = 1

\* C27 as the code has it: the LLM is called at most once per request, after
\* the local score is there; exactly once when the prompt can be built, and
\* not at all when building it raises (a document that is None).
C27_ExactlyOneLLMCallAmended ==
    /\ pc = "llm" => (local_results # None /\ llm_calls = 0)
    /\ Returned => llm_calls = (IF PromptBuilt THEN 1 ELSE 0)

\* C27 witness: the one call raised and the request returned the error
\* judgment without a second call
C27_Witness ==
    /\ Returned
    /\ response # None
    /\ response.kind = "raise"
    /\ llm_calls = 1
    /\ gemini_results = _create_error_result(response.exc).d

\* C22: whatever the order of constructions and calls, the LLM call of an
\* engine is made with the key the engine was constructed with.
C22_OwnCredential ==
    pc = "called" => ret.credential = engines[ret.engine].gemini_api_key

\* C23: no step of the local scorer or of the LLM client writes state that
\* is shared with other requests: the module's random generator, the
\* documents and the skills list stay as they were, and the local score, once
\* computed, stays as it is.
C23_NoSharedWrites ==
    [][/\ rng' = rng
       /\ request # None => request' = request
       /\ local_results # None => local_results' = local_results]_vars

(***************************************************************************)
(* SpecAnalysis: one run of _perform_analysis (src/app.py), statement by   *)
(* statement.  An uploaded file is a record of its base name and its       *)
(* extension; a temporary path is a record of its number and its suffix.   *)
(* The locals resume_path and jd_path are kept in ret; a step of the try   *)
(* block that raises goes to the except clause of line 490.                *)
(***************************************************************************)
Uploads ==
    [base : {"cv"}, ext : {".pdf", ".docx"}]
        \cup [base : {"jd"}, ext : {".txt"}]

AnalysisInputs ==
    [resume_file : {None} \cup {u \in Uploads : u.base = "cv"},
     jd_file : {None} \cup {u \in Uploads : u.base = "jd"},
     jd_text_input : {"", "Senior Python engineer"}]

Unset == [t |-> "unset"]

\* tempfile.NamedTemporaryFile(delete=False, suffix=...): a name not in use
TempPath(suffix) ==
    [t |-> "path", n |-> Cardinality(temp_files) + 1, suffix |-> suffix]

\* save_uploaded_file: the file it leaves on disk and the path it returns.
\* "saved": written and returned; "write_fails": created, the write raises
\* and None is returned; "create_fails": nothing created, None is returned
save_uploaded_file(uploaded_file, outcome) ==
    LET tmp_file == TempPath(uploaded_file.ext)
    IN  CASE outcome = "saved" ->
                [created |-> {tmp_file}, path |-> tmp_file,
                 name |-> uploaded_file.base \o uploaded_file.ext]
          [] outcome = "write_fails" ->
                [created |-> {tmp_file}, path |-> None, name |-> ""]
          [] OTHER ->
                [created |-> {}, path |-> None, name |-> ""]

SaveOutcomes == {"saved", "write_fails", "create_fails"}

InitAnalysis ==
    /\ pc = "perform_analysis"
    /\ request = None
    /\ local_results = None
    /\ response = None
    /\ gemini_results = None
    /\ final_result = None
    /\ rng = 0
    /\ prev_local = None
    /\ args \in AnalysisInputs
    /\ ret = [resume_path |-> Unset, jd_path |-> Unset]
    /\ llm_calls = 0
    /\ AppInit

\* what no step of _perform_analysis changes
analysis_frame ==
    <<request_vars, args, configured_key, engines, candidates, sqlite_sequence>>

\* lines 433-439: the early returns
CheckInputs ==
    /\ pc = "perform_analysis"
    /\ pc' = IF args.resume_file = None
                \/ (args.jd_file = None /\ args.jd_text_input = "")
             THEN "returned" ELSE "save_resume"
    /\ UNCHANGED <<ret, temp_files, analysis_frame>>

\* line 452
SaveResume ==
    /\ pc = "save_resume"
    /\ \E outcome \in SaveOutcomes :
        LET saved == save_uploaded_file(args.resume_file, outcome)
        IN  /\ temp_files' = temp_files \cup saved.created
            /\ ret' = [ret EXCEPT !.resume_path = saved.path]
    /\ pc' = "process_resume"
    /\ UNCHANGED analysis_frame

\* line 453: process_file raises for the path None, and may raise for a file
ProcessResume ==
    /\ pc = "process_resume"
    /\ \E raises \in BOOLEAN :
        pc' = IF ret.resume_path = None \/ raises
              THEN "except" ELSE "job_description"
    /\ UNCHANGED <<ret, temp_files, analysis_frame>>

\* line 459
SaveJD ==
    /\ pc = "job_description"
    /\ args.jd_file # None
    /\ \E outcome \in SaveOutcomes :
        LET saved == save_uploaded_file(args.jd_file, outcome)
        IN  /\ temp_files' = temp_files \cup saved.created
            /\ ret' = [ret EXCEPT !.jd_path = saved.path]
    /\ pc' = "process_jd"
    /\ UNCHANGED analysis_frame

\* line 460
ProcessJD ==
    /\ pc = "process_jd"
    /\ \E raises \in BOOLEAN :
        pc' = IF ret.jd_path = None \/ raises THEN "except" ELSE "match"
    /\ UNCHANGED <<ret, temp_files, analysis_frame>>

\* lines 462-463: the job description typed in; jd_path stays unset
UseJDText ==
    /\ pc = "job_description"
    /\ args.jd_file = None
    /\ pc' = "match"
    /\ UNCHANGED <<ret, temp_files, analysis_frame>>

\* lines 468-473: extract_skills and comprehensive_match, which may raise
Match ==
    /\ pc = "match"
    /\ \E raises \in BOOLEAN : pc' = IF raises THEN "except" ELSE "save_results"
    /\ UNCHANGED <<ret, temp_files, analysis_frame>>

\* line 478: _save_analysis_results; the database manager re-raises
SaveResults ==
    /\ pc = "save_results"
    /\ \E raises \in BOOLEAN : pc' = IF raises THEN "except" ELSE "display"
    /\ UNCHANGED <<ret, temp_files, analysis_frame>>

\* lines 481-482
DisplayResults ==
    /\ pc = "display"
    /\ \E raises \in BOOLEAN : pc' = IF raises THEN "except" ELSE "cleanup"
    /\ UNCHANGED <<ret, temp_files, analysis_frame>>

\* lines 484-488: the last statements of the try block
Cleanup ==
    /\ pc = "cleanup"
    /\ temp_files' = temp_files \ {ret.resume_path, ret.jd_path}
    /\ pc' = "returned"
    /\ UNCHANGED <<ret, analysis_frame>>

\* lines 490-491: the except clause shows the error and nothing else
HandleException ==
    /\ pc = "except"
    /\ pc' = "returned"
    /\ UNCHANGED <<ret, temp_files, analysis_frame>>

NextAnalysis ==
    \/ CheckInputs \/ SaveResume \/ ProcessResume \/ SaveJD \/ ProcessJD
    \/ UseJDText \/ Match \/ SaveResults \/ DisplayResults \/ Cleanup
    \/ HandleException

SpecAnalysis == InitAnalysis /\ [][NextAnalysis]_vars

\* C28: when _perform_analysis has returned, every temporary file that
\* save_uploaded_file created during it is deleted.
C28_TempFilesDeleted ==
    pc = "returned" => temp_files = {}

(***************************************************************************)
(* SpecDatabase: save_candidate called again and again (src/database.py).  *)
(* candidate_data is a dict, a function from the keys it has to JSON       *)
(* values; a row of the candidates table is a record of its columns, the   *)
(* created_at timestamp left out.  The callers of the repository pass the  *)
(* uploaded file's name, a string, as resume_path.                         *)
(***************************************************************************)
Absent == [t |-> "absent"]

\* the dict with the keys whose value is given
MakeDict(full) == [k \in {f \in DOMAIN full : full[f] # Absent} |-> full[k]]

CandidateDicts ==
    {MakeDict([candidate_name |-> name, resume_path |-> path,
               resume_text |-> Str("Experienced Python developer"),
               skills |-> skills, experience |-> experience]) :
        name \in {Absent, Str("cv.pdf")},
        path \in {Absent, Str("cv.pdf"), Str("cv.docx")},
        skills \in {Absent, List(<<>>), List(<<"python", "aws">>)},
        experience \in {Str("8 years")}}

\* dict.get(key, default)
Get(d, key, default) == IF key \in DOMAIN d THEN d[key] ELSE default

\* json.dumps of a list of strings
RECURSIVE JoinItems(_)
JoinItems(items) ==
    IF items = <<>> THEN ""
    ELSE IF Len(items) = 1 THEN "\"" \o items[1] \o "\""
    ELSE "\"" \o items[1] \o "\", " \o JoinItems(Tail(items))
json_dumps(value) == "[" \o JoinItems(value.items) \o "]"

\* the rows INSERT alone would clash with: none, on a table without UNIQUE
conflicting_rows_none(resume_path) == {}

\* the rows INSERT OR REPLACE deletes: those with the new row's resume_path
\* (resume_path TEXT UNIQUE, line 42)
conflicting_rows(resume_path) ==
    {row \in candidates : row.resume_path = resume_path}

\* the row of lines 121-130 for a dict that has a resume_path
row_of(candidate_data, id) ==
    [id |-> id,
     candidate_name |-> Get(candidate_data, "candidate_name", Str("")).str,
     resume_path |-> candidate_data["resume_path"].str,
     resume_text |-> Get(candidate_data, "resume_text", Str("")).str,
     skills |-> json_dumps(Get(candidate_data, "skills", List(<<>>))),
     experience |-> Get(candidate_data, "experience", Str("")).str,
     education |-> Get(candidate_data, "education", Str("")).str]

\* save_candidate: a dict without resume_path raises KeyError at line 126
\* and the table is left as it was
SaveCandidate ==
    /\ sqlite_sequence < MaxRowId
    /\ \E candidate_data \in CandidateDicts :
        /\ args' = candidate_data
        /\ IF "resume_path" \in DOMAIN candidate_data
           THEN LET row == row_of(candidate_data, sqlite_sequence + 1)
                IN  /\ candidates' =
                           (candidates \ conflicting_rows(row.resume_path))
                               \cup {row}
                    /\ sqlite_sequence' = sqlite_sequence + 1
                    /\ ret' = [t |-> "rowid", id |-> row.id]
                    /\ pc' = "saved"
           ELSE /\ ret' = Raise("KeyError")
                /\ pc' = "save_failed"
                /\ UNCHANGED <<candidates, sqlite_sequence>>
    /\ UNCHANGED <<request_vars, configured_key, engines, temp_files>>

NextDatabase == SaveCandidate

SpecDatabase == Init /\ [][NextDatabase]_vars

rendered_items(gemini_scores, key) ==
    LET value == Get(gemini_scores, key, List(<<>>))
    IN  IF FalsyValue(value) THEN <<>> ELSE value.items

\* lines 607-642
_display_professional_results(results) ==
    [strengths |-> rendered_items(results.gemini_scores, "strengths"),
     gaps |-> rendered_items(results.gemini_scores, "gaps"),
     interview_focus |->
         rendered_items(results.gemini_scores, "interview_focus")]

RenderResults ==
    /\ pc = "done"
    /\ ret' = _display_professional_results(final_result)
    /\ pc' = "displayed"
    /\ UNCHANGED <<request_vars, args, app_vars>>

NextDisplay ==
    Call \/ LLMRaise \/ LLMRespondParsed \/ LLMRespondUnparsed \/ RenderResults

SpecDisplay == Init /\ [][NextDisplay]_vars

\* C30: the three lists the results view renders are the judgment's
\* key_strengths, critical_gaps and interview_focus_areas.
C30_DisplayedLists ==
    pc = "displayed" =>
        /\ ret.strengths = gemini_results.key_strengths.items
        /\ ret.gaps = gemini_results.critical_gaps.items
        /\ ret.interview_focus = gemini_results.interview_focus_areas.items

=============================================================================
